---- MODULE Spec2Model ----
(***************************************************************************)
(* Model of server.js: an Express application with two POST routes that    *)
(* talk to the Stripe payment processor.                                   *)
(*                                                                         *)
(*   POST /create-payment-intent   customers.create -> prices.create ->    *)
(*                                 subscriptions.create, three awaits      *)
(*   POST /webhook                 constructEvent + switch, no await       *)
(*                                                                         *)
(* Every request passes first through the global middleware chain          *)
(* (cors, express.static, express.json, logger) and errors forwarded with  *)
(* next(err) end in the error-handling middleware.                         *)
(*                                                                         *)
(* Strings that the code inspects character by character (programPrice)    *)
(* are sequences of one-character strings.  JavaScript numbers are IEEE    *)
(* doubles; the ones that occur here are represented exactly (see          *)
(* ParseFloat and Times100).                                               *)
(***************************************************************************)
EXTENDS Integers, Sequences, FiniteSets, TLC

(* ------------------------------ bounds -------------------------------- *)

\* number of HTTP requests observed in one behaviour
MaxReq == 2

Req == 1..MaxReq

(* ------------------------------ inputs -------------------------------- *)

\* programPrice values sent by the front end, as character sequences
PriceStrings ==
    { <<"2","9",".","9","9">>,
      <<"1","9",".","9","9">>,
      <<"0">>,
      <<"a","b","c">> }

ProgramNames == {"strength"}

\* JSON bodies of POST /create-payment-intent
PaymentBodies ==
    [programName : ProgramNames, programPrice : PriceStrings,
     email : {"a@x.io"}, name : {"Ann"}]

\* failures the processor client raises (error.message, error.type)
StripeErrors ==
    { [message |-> "Invalid request", type |-> "StripeInvalidRequestError"],
      [message |-> "Connection failed", type |-> "StripeConnectionError"] }

EventTypes ==
    { "customer.subscription.created", "invoice.payment_succeeded",
      "payment_intent.succeeded", "charge.refunded" }

\* a POST /webhook request as it arrives: the Content-Type header, whether
\* the raw bytes are syntactically JSON, the type tag inside them, and
\* whether the stripe-signature header is a valid signature of the raw
\* bytes under STRIPE_WEBHOOK_SECRET.  Events are sent as application/json;
\* the other requests are JSON events under another content type and bytes
\* that are not JSON (which have no type tag).
WebhookRequests ==
    [contentType : {"application/json"}, wellFormed : {TRUE},
     type : EventTypes, sigValid : BOOLEAN]
    \cup [contentType : {"text/plain"}, wellFormed : {TRUE},
          type : {"payment_intent.succeeded"}, sigValid : BOOLEAN]
    \cup [contentType : {"application/json"}, wellFormed : {FALSE},
          type : {""}, sigValid : BOOLEAN]

(* ------------------- JavaScript numbers (IEEE doubles) ---------------- *)

Digits == {"0","1","2","3","4","5","6","7","8","9"}

DigitVal(c) ==
    CASE c = "0" -> 0 [] c = "1" -> 1 [] c = "2" -> 2 [] c = "3" -> 3
      [] c = "4" -> 4 [] c = "5" -> 5 [] c = "6" -> 6 [] c = "7" -> 7
      [] c = "8" -> 8 [] c = "9" -> 9

\* length of the run of decimal digits of s that starts at position i
RECURSIVE DigitRun(_, _)
DigitRun(s, i) ==
    IF i <= Len(s) /\ s[i] \in Digits THEN 1 + DigitRun(s, i + 1) ELSE 0

\* the number written by the n digits of s that start at position i
RECURSIVE DigitsValue(_, _, _)
DigitsValue(s, i, n) ==
    IF n = 0 THEN 0
    ELSE DigitsValue(s, i, n - 1) * 10 + DigitVal(s[i + n - 1])

RECURSIVE Pow(_, _)
Pow(b, e) == IF e = 0 THEN 1 ELSE b * Pow(b, e - 1)

\* 2^e modulo m, without leaving the small integers
RECURSIVE Pow2Mod(_, _)
Pow2Mod(e, m) == IF e = 0 THEN 1 % m ELSE (2 * Pow2Mod(e - 1, m)) % m

\* number of binary digits of n >= 1
RECURSIVE BitLen(_)
BitLen(n) == IF n <= 1 THEN 1 ELSE 1 + BitLen(n \div 2)

NaN == [nan |-> TRUE, cents |-> 0]

\* parseFloat(string): the longest prefix that is a decimal literal
\* (digits, optionally "." and digits), NaN when there is none.  The
\* result is the double nearest to the literal's value.  The price strings
\* of this model carry at most two fraction digits, so that value is
\* cents/100 for a natural number `cents`, which identifies the double.
ParseFloat(s) ==
    LET il == DigitRun(s, 1)
        hasDot == il < Len(s) /\ s[il + 1] = "."
        fl == IF hasDot THEN DigitRun(s, il + 2) ELSE 0
    IN  IF il = 0 /\ fl = 0 THEN NaN
        ELSE [nan |-> FALSE,
              cents |-> DigitsValue(s, 1, il) * 100
                        + DigitsValue(s, il + 2, fl) * Pow(10, 2 - fl)]

\* The double product  d * 100  where d is the double nearest to n/100,
\* as the distance of the product from the integer n, counted in the
\* spacing of the doubles next to n (0: the product is exactly n).
\*
\*   d = m * 2^-k with m the 53-bit significand, m = round(n * 2^k / 100).
\*   With r = (n * 2^k) mod 100, round-to-nearest-even gives
\*   100 * m = n * 2^k + delta, delta = 100 - r (rounded up) or -r (down).
\*   The exact product is n + delta * 2^-k, and the multiplication rounds
\*   it to the nearest double (ties to even).  The doubles next to n are
\*   2^(bitlen(n) - 53) apart, which is 2^(gap - k) for
\*   gap = bitlen(n) - bitlen(n/100) in {6, 7}.
ProductUlps(n) ==
    IF n = 0 THEN 0
    ELSE
    LET bN == BitLen(n)
        gap == IF n * 64 >= 100 * Pow(2, bN - 1) THEN 6 ELSE 7
        k == 53 - bN + gap
        r == ((n % 100) * Pow2Mod(k, 100)) % 100
        qOdd == ((n % 200) * Pow2Mod(k, 200)) % 200 >= 100
        up == r > 50 \/ (r = 50 /\ qOdd)
        delta == IF up THEN 100 - r ELSE 0 - r
        \* below a power of two the doubles are twice as dense
        unit == IF delta < 0 /\ n = Pow(2, bN - 1)
                THEN Pow(2, gap - 1) ELSE Pow(2, gap)
        mag == IF delta < 0 THEN 0 - delta ELSE delta
        \* round mag/unit to nearest; a tie goes to n, whose significand
        \* is even
        steps == IF 2 * (mag % unit) > unit THEN mag \div unit + 1
                 ELSE mag \div unit
    IN  IF delta < 0 THEN 0 - steps ELSE steps

\* x * 100 for a double x produced by ParseFloat: NaN stays NaN, otherwise
\* the double  whole + ulps * spacing
Times100(x) ==
    IF x.nan THEN [nan |-> TRUE, whole |-> 0, ulps |-> 0]
    ELSE [nan |-> FALSE, whole |-> x.cents, ulps |-> ProductUlps(x.cents)]

\* parseFloat(programPrice) * 100, the unit_amount handed to prices.create
UnitAmount(programPrice) == Times100(ParseFloat(programPrice))

\* the amount is a whole number (Number.isInteger)
IsInteger(a) == ~a.nan /\ a.ulps = 0

(* ------------------------------- state -------------------------------- *)

VARIABLES
    pc,         \* per request: where its handler is suspended
    route,      \* per request: the route it was sent to ("none" before)
    body,       \* per request: what the client sent
    customer,   \* per request: the handler's local `customer` (its id)
    price,      \* per request: the handler's local `price` (its id)
    calls,      \* per request: the processor calls issued, with results
    stripe,     \* the records the processor holds
    responses,  \* per request: what was written to `res`
    log         \* per request: console output of its handler

vars == <<pc, route, body, customer, price, calls, stripe, responses, log>>

NoId == <<>>

\* the three awaited processor calls in source order
Steps == <<"customers.create", "prices.create", "subscriptions.create">>

(* ----------------------- the payment processor ------------------------ *)

\* identifiers are unique per object kind
NewId(kind, existing) == <<kind, Len(existing) + 1>>

\* prices.create takes a non-negative integer number of cents
AmountAccepted(a) == IsInteger(a) /\ a.whole >= 0

\* an invoice of amount zero is settled at once and carries no payment
\* intent; any other first invoice of a default_incomplete subscription
\* has one, expanded into the subscription by `expand`
HasPaymentIntent(a) == a.whole > 0

NoError == [message |-> "", type |-> ""]

\* what an awaited call can settle to: a value, or a thrown error
Outcomes(canSucceed) ==
    {[ok |-> FALSE, error |-> e] : e \in StripeErrors}
    \cup (IF canSucceed THEN {[ok |-> TRUE, error |-> NoError]} ELSE {})

\* the TypeError of reading .client_secret of a null payment intent
NullPaymentIntentError ==
    [message |-> "Cannot read properties of null", type |-> "undefined"]

(* ------------------------ responses of the server --------------------- *)

\* faulty variant of Reply: the response is never written
ReplyDropped(sent, resp) == sent

\* res.json / res.send: one more response written for the request
Reply(sent, resp) == Append(sent, resp)

\* faulty variant of SuccessResponse: reports the customer's id as the
\* subscription's
SuccessResponseWrongId(subscription) ==
    [status |-> 200, kind |-> "json",
     body |-> [subscriptionId |-> subscription.customer,
               clientSecret |->
                   subscription.latest_invoice.payment_intent.client_secret]]

\* lines 80-83
SuccessResponse(subscription) ==
    [status |-> 200, kind |-> "json",
     body |-> [subscriptionId |-> subscription.id,
               clientSecret |->
                   subscription.latest_invoice.payment_intent.client_secret]]

\* faulty variant of CatchResponse: hides the failure behind a fixed text
CatchResponseGeneric(error) ==
    [status |-> 500, kind |-> "json",
     body |-> [error |-> [message |-> "Internal server error",
                          type |-> "api_error"]]]

\* lines 84-92
CatchResponse(error) ==
    [status |-> 500, kind |-> "json",
     body |-> [error |-> [message |-> error.message, type |-> error.type]]]

\* lines 146-154
ErrorMiddleware(err) ==
    [status |-> 500, kind |-> "json",
     body |-> [error |-> [message |-> "Internal server error",
                          details |-> err.message]]]

\* body-parser's error for bytes that are not JSON
JsonSyntaxError == [message |-> "Unexpected token", type |-> "entity.parse.failed"]

(* --------------------- POST /create-payment-intent --------------------- *)

\* faulty variant of SubscriptionParams: `customer` kept in one variable
\* shared by all invocations, so it holds the customer created last
SubscriptionParamsShared(r, customerOf, priceOf) ==
    [customer |-> IF Len(stripe.customers) = 0 THEN NoId
                  ELSE stripe.customers[Len(stripe.customers)].id,
     price |-> priceOf[r]]

\* lines 69-71: the subscription binds this invocation's `customer` and
\* `price`
SubscriptionParams(r, customerOf, priceOf) ==
    [customer |-> customerOf[r], price |-> priceOf[r]]

\* the argument of each processor call (lines 43-49, 54-63, 68-76)
Params(r, api, b, customerOf, priceOf) ==
    CASE api = "customers.create" ->
            [email |-> b.email, name |-> b.name,
             metadata |-> [programName |-> b.programName]]
      [] api = "prices.create" ->
            [unit_amount |-> UnitAmount(b.programPrice), currency |-> "usd",
             recurring |-> [interval |-> "month"],
             product_data |-> [name |-> b.programName]]
      [] api = "subscriptions.create" ->
            SubscriptionParams(r, customerOf, priceOf)

\* faulty variant of NextStep: a rejected customers.create is ignored
NextStepAfterCustomerFailure(api, ok) ==
    CASE api = "customers.create" -> "prices.create"
      [] api = "prices.create" -> IF ok THEN "subscriptions.create" ELSE "catch"
      [] api = "subscriptions.create" -> IF ok THEN "respond" ELSE "catch"

\* faulty variant of NextStep: a rejected prices.create is ignored
NextStepAfterPriceFailure(api, ok) ==
    CASE api = "customers.create" -> IF ok THEN "prices.create" ELSE "catch"
      [] api = "prices.create" -> "subscriptions.create"
      [] api = "subscriptions.create" -> IF ok THEN "respond" ELSE "catch"

\* control flow of the try block: where the handler goes when the awaited
\* call `api` settles
NextStep(api, ok) ==
    IF ~ok THEN "catch"
    ELSE CASE api = "customers.create" -> "prices.create"
           [] api = "prices.create" -> "subscriptions.create"
           [] api = "subscriptions.create" -> "respond"

\* the call log with its last (pending) call settled: returned, or threw
\* o.error
Settle(cs, o) ==
    [cs EXCEPT ![Len(cs)].result = IF o.ok THEN "ok" ELSE "failed",
               ![Len(cs)].error = o.error]

\* the call log with one more call, now pending
Issue(cs, r, api, b, customerOf, priceOf) ==
    Append(cs, [api |-> api, params |-> Params(r, api, b, customerOf, priceOf),
                result |-> "pending", error |-> NoError])

\* console.log after a successful call
CreatedMessage(api) ==
    CASE api = "customers.create" -> "Customer created"
      [] api = "prices.create" -> "Price created"
      [] api = "subscriptions.create" -> "Subscription created"

\* The handler resumes after the awaited call `api` settled with outcome o:
\* it either enters the catch block, issues the next call, or (after the
\* last call) reads the client secret and responds.  `created` is the
\* object the call returned, customerOf/priceOf the locals after the
\* assignment of that object.
Resume(r, api, o, created, customerOf, priceOf) ==
    LET nxt == NextStep(api, o.ok)
        settled == Settle(calls[r], o)
    IN
    IF nxt = "catch" THEN
        /\ pc' = [pc EXCEPT ![r] = "done"]
        /\ calls' = [calls EXCEPT ![r] = settled]
        /\ log' = [log EXCEPT ![r] = Append(@, "Error in payment intent creation")]
        /\ responses' = [responses EXCEPT ![r] = Reply(@, CatchResponse(o.error))]
    ELSE IF nxt = "respond" THEN
        /\ pc' = [pc EXCEPT ![r] = "done"]
        /\ calls' = [calls EXCEPT ![r] = settled]
        /\ IF created.latest_invoice.payment_intent.null
           THEN \* TypeError inside the try block, caught at line 84
                /\ log' = [log EXCEPT ![r] =
                       @ \o <<CreatedMessage(api), "Error in payment intent creation">>]
                /\ responses' = [responses EXCEPT ![r] =
                       Reply(@, CatchResponse(NullPaymentIntentError))]
           ELSE /\ log' = [log EXCEPT ![r] = Append(@, CreatedMessage(api))]
                /\ responses' = [responses EXCEPT ![r] =
                       Reply(@, SuccessResponse(created))]
    ELSE
        /\ pc' = [pc EXCEPT ![r] = nxt]
        /\ calls' = [calls EXCEPT ![r] =
               Issue(settled, r, nxt, body[r], customerOf, priceOf)]
        /\ log' = [log EXCEPT ![r] =
               IF o.ok THEN Append(@, CreatedMessage(api)) ELSE @]
        /\ UNCHANGED responses

\* A POST /create-payment-intent request arrives with a JSON content type.
\* express.json() (line 18) parses it; bytes that are not JSON are
\* forwarded as an error to the error middleware (line 146) and the route
\* handler never runs.  Otherwise the handler runs up to its first await.
PostCreatePaymentIntent(r) ==
    /\ pc[r] = "idle"
    /\ route' = [route EXCEPT ![r] = "create-payment-intent"]
    /\ \E wellFormed \in BOOLEAN, b \in PaymentBodies :
        IF ~wellFormed THEN
            /\ pc' = [pc EXCEPT ![r] = "done"]
            /\ responses' = [responses EXCEPT ![r] =
                   Reply(@, ErrorMiddleware(JsonSyntaxError))]
            /\ UNCHANGED <<body, calls, log>>
        ELSE
            /\ pc' = [pc EXCEPT ![r] = Steps[1]]
            /\ body' = [body EXCEPT ![r] = b]
            /\ log' = [log EXCEPT ![r] = Append(@, "Received payment request")]
            /\ calls' = [calls EXCEPT ![r] =
                   Issue(@, r, Steps[1], b, customer, price)]
            /\ UNCHANGED responses
    /\ UNCHANGED <<customer, price, stripe>>

\* await stripe.customers.create(...) settles (line 43)
CustomersCreateReturn(r) ==
    /\ pc[r] = "customers.create"
    /\ \E o \in Outcomes(TRUE) :
        LET p == calls[r][Len(calls[r])].params
            new == [id |-> NewId("cus", stripe.customers), by |-> r,
                    email |-> p.email, name |-> p.name,
                    metadata |-> p.metadata]
            customerOf == IF o.ok THEN [customer EXCEPT ![r] = new.id]
                          ELSE customer
        IN  /\ stripe' = IF o.ok
                         THEN [stripe EXCEPT !.customers = Append(@, new)]
                         ELSE stripe
            /\ customer' = customerOf
            /\ Resume(r, "customers.create", o, new, customerOf, price)
    /\ UNCHANGED <<route, body, price>>

\* await stripe.prices.create(...) settles (line 54)
PricesCreateReturn(r) ==
    /\ pc[r] = "prices.create"
    /\ LET p == calls[r][Len(calls[r])].params IN
       \E o \in Outcomes(AmountAccepted(p.unit_amount)) :
        LET new == [id |-> NewId("price", stripe.prices), by |-> r,
                    unit_amount |-> p.unit_amount,
                    product |-> p.product_data.name]
            priceOf == IF o.ok THEN [price EXCEPT ![r] = new.id] ELSE price
        IN  /\ stripe' = IF o.ok
                         THEN [stripe EXCEPT !.prices = Append(@, new)]
                         ELSE stripe
            /\ price' = priceOf
            /\ Resume(r, "prices.create", o, new, customer, priceOf)
    /\ UNCHANGED <<route, body, customer>>

\* the processor knows the object with this id
Known(objects, id) == \E i \in 1..Len(objects) : objects[i].id = id

Lookup(objects, id) ==
    objects[CHOOSE i \in 1..Len(objects) : objects[i].id = id]

\* await stripe.subscriptions.create(...) settles (line 68)
SubscriptionsCreateReturn(r) ==
    /\ pc[r] = "subscriptions.create"
    /\ LET p == calls[r][Len(calls[r])].params
           known == Known(stripe.customers, p.customer)
                    /\ Known(stripe.prices, p.price)
       IN
       \E o \in Outcomes(known) :
        LET id == NewId("sub", stripe.subscriptions)
            amount == Lookup(stripe.prices, p.price).unit_amount
            intent == IF o.ok /\ HasPaymentIntent(amount)
                      THEN [null |-> FALSE, client_secret |-> <<"secret", id>>]
                      ELSE [null |-> TRUE, client_secret |-> <<>>]
            new == [id |-> id, by |-> r,
                    customer |-> p.customer, price |-> p.price,
                    latest_invoice |-> [payment_intent |-> intent]]
        IN  /\ stripe' = IF o.ok
                         THEN [stripe EXCEPT !.subscriptions = Append(@, new)]
                         ELSE stripe
            /\ Resume(r, "subscriptions.create", o, new, customer, price)
    /\ UNCHANGED <<route, body, customer, price>>

(* ---------------------------- POST /webhook ---------------------------- *)

\* the request as the middleware chain sees it: req.body starts unread
Incoming(w) ==
    [contentType |-> w.contentType, wellFormed |-> w.wellFormed,
     type |-> w.type, sigValid |-> w.sigValid,
     bodyKind |-> "unread", failed |-> FALSE]

\* app.use(express.json()) (line 18): a body whose Content-Type is
\* application/json is read and replaced by the parsed object; bytes that
\* are not JSON are forwarded as an error; other content types are left
\* alone
ExpressJson(req) ==
    IF req.contentType # "application/json" THEN req
    ELSE IF req.wellFormed THEN [req EXCEPT !.bodyKind = "object"]
    ELSE [req EXCEPT !.failed = TRUE]

\* express.raw({type: 'application/json'}) (line 96): a body that an
\* earlier parser has already read is left as it is; otherwise a body of
\* the given type is read into a Buffer
ExpressRaw(req) ==
    IF req.bodyKind # "unread" THEN req
    ELSE IF req.contentType = "application/json"
    THEN [req EXCEPT !.bodyKind = "buffer"]
    ELSE req

\* stripe.webhooks.constructEvent(req.body, sig, secret) (line 101)
\* returns the event only for the raw bytes (a Buffer or string) with a
\* signature that matches them, and throws otherwise
ConstructEventOk(req) ==
    req.bodyKind = "buffer" /\ req.sigValid /\ req.wellFormed

\* the console.log of the switch (lines 112-130)
DispatchMessage(type) ==
    CASE type = "customer.subscription.created" -> "New subscription created"
      [] type = "invoice.payment_succeeded" -> "Payment succeeded for invoice"
      [] type = "payment_intent.succeeded" -> "Payment succeeded"
      [] OTHER -> "Unhandled event type"

DispatchMessages ==
    { "New subscription created", "Payment succeeded for invoice",
      "Payment succeeded", "Unhandled event type" }

\* faulty variant of WebhookHandler: the catch block does not return, and
\* the handler goes on with the unverified body
WebhookHandlerNoReturn(req) ==
    IF ~ConstructEventOk(req)
    THEN [sent |-> Reply(Reply(<<>>, [status |-> 400, kind |-> "text",
                                      body |-> [text |-> "Webhook Error"]]),
                         [status |-> 200, kind |-> "json",
                          body |-> [received |-> TRUE]]),
          log |-> <<"Webhook Error", DispatchMessage(req.type)>>]
    ELSE [sent |-> Reply(<<>>, [status |-> 200, kind |-> "json",
                                body |-> [received |-> TRUE]]),
          log |-> <<DispatchMessage(req.type)>>]

\* the route handler (lines 96-133): what it writes to res and to the
\* console
WebhookHandler(req) ==
    IF ~ConstructEventOk(req)
    THEN [sent |-> Reply(<<>>, [status |-> 400, kind |-> "text",
                                body |-> [text |-> "Webhook Error"]]),
          log |-> <<"Webhook Error">>]
    ELSE [sent |-> Reply(<<>>, [status |-> 200, kind |-> "json",
                                body |-> [received |-> TRUE]]),
          log |-> <<DispatchMessage(req.type)>>]

\* the whole chain for one webhook request
WebhookRoute(w) ==
    LET parsed == ExpressJson(Incoming(w))
    IN  IF parsed.failed
        THEN [sent |-> Reply(<<>>, ErrorMiddleware(JsonSyntaxError)),
              log |-> <<"Server error">>]
        ELSE WebhookHandler(ExpressRaw(parsed))

\* A POST /webhook request arrives and is answered; the handler has no
\* await, so it runs to completion in one step.
PostWebhook(r) ==
    /\ pc[r] = "idle"
    /\ \E w \in WebhookRequests :
        LET out == WebhookRoute(w)
        IN  /\ body' = [body EXCEPT ![r] = w]
            /\ responses' = [responses EXCEPT ![r] = out.sent]
            /\ log' = [log EXCEPT ![r] = out.log]
    /\ route' = [route EXCEPT ![r] = "webhook"]
    /\ pc' = [pc EXCEPT ![r] = "done"]
    /\ UNCHANGED <<customer, price, calls, stripe>>

(* --------------------------- specification ---------------------------- *)

NoBody == [programName |-> "", programPrice |-> <<>>, email |-> "", name |-> ""]

Init ==
    /\ pc = [r \in Req |-> "idle"]
    /\ route = [r \in Req |-> "none"]
    /\ body = [r \in Req |-> NoBody]
    /\ customer = [r \in Req |-> NoId]
    /\ price = [r \in Req |-> NoId]
    /\ calls = [r \in Req |-> <<>>]
    /\ stripe = [customers |-> <<>>, prices |-> <<>>, subscriptions |-> <<>>]
    /\ responses = [r \in Req |-> <<>>]
    /\ log = [r \in Req |-> <<>>]

Next ==
    \E r \in Req :
        \/ PostCreatePaymentIntent(r)
        \/ CustomersCreateReturn(r)
        \/ PricesCreateReturn(r)
        \/ SubscriptionsCreateReturn(r)
        \/ PostWebhook(r)

Spec == Init /\ [][Next]_vars

\* every processor call eventually returns or throws
FairSpec ==
    Spec /\ \A r \in Req :
        /\ WF_vars(CustomersCreateReturn(r))
        /\ WF_vars(PricesCreateReturn(r))
        /\ WF_vars(SubscriptionsCreateReturn(r))

(* ------------------------------ properties ---------------------------- *)

IsPayment(r) == route[r] = "create-payment-intent"

IsWebhook(r) == route[r] = "webhook"

\* the request reached its route handler (its body was accepted by
\* express.json)
PaymentHandlerRan(r) == IsPayment(r) /\ Len(calls[r]) > 0

\* the webhook request as the route handler received it
AsHandled(r) == ExpressRaw(ExpressJson(Incoming(body[r])))

WebhookHandlerRan(r) == IsWebhook(r) /\ ~ExpressJson(Incoming(body[r])).failed

\* the APIs called for request r, in order of issue
RECURSIVE ApiNames(_)
ApiNames(cs) ==
    IF cs = <<>> THEN <<>> ELSE <<Head(cs).api>> \o ApiNames(Tail(cs))

IsPrefix(a, b) == Len(a) <= Len(b) /\ a = SubSeq(b, 1, Len(a))

AllCallsOk(r) ==
    /\ Len(calls[r]) = Len(Steps)
    /\ \A i \in 1..Len(calls[r]) : calls[r][i].result = "ok"

ReceivedResponse == [status |-> 200, kind |-> "json", body |-> [received |-> TRUE]]

BadSignatureResponse == [status |-> 400, kind |-> "text", body |-> [text |-> "Webhook Error"]]

\* C1: a webhook request whose signature verification fails is answered
\* with HTTP 400 and plain text only, and nothing of the event-type
\* dispatch is executed for it (no dispatch message is logged, no
\* {received: true} is sent).
C1_FailedVerificationStops ==
    \A r \in Req :
        (WebhookHandlerRan(r) /\ ~ConstructEventOk(AsHandled(r)))
        => /\ responses[r] = <<BadSignatureResponse>>
           /\ \A i \in 1..Len(log[r]) : log[r][i] \notin DispatchMessages

\* a webhook request with JSON content and a wrong signature was rejected
C1_Witness ==
    \E r \in Req :
        /\ WebhookHandlerRan(r)
        /\ body[r].contentType = "application/json"
        /\ body[r].wellFormed /\ ~body[r].sigValid
        /\ Len(responses[r]) = 1 /\ responses[r][1].status = 400

\* C2: a webhook request that carries a validly signed event (JSON bytes
\* sent as application/json with a signature that matches them) is
\* answered with HTTP 200 {received: true}, whatever its event type.
C2_ValidEventAcknowledged ==
    \A r \in Req :
        (/\ IsWebhook(r)
         /\ body[r].contentType = "application/json"
         /\ body[r].wellFormed /\ body[r].sigValid)
        => responses[r] = <<ReceivedResponse>>

\* C3: when customers.create is rejected, the request is answered with
\* HTTP 500 and neither prices.create nor subscriptions.create is called.
C3_CustomerRejectionStops ==
    \A r \in Req :
        (PaymentHandlerRan(r) /\ calls[r][1].result = "failed")
        => /\ Len(responses[r]) = 1 /\ responses[r][1].status = 500
           /\ ApiNames(calls[r]) = <<"customers.create">>

C3_Witness ==
    \E r \in Req :
        /\ PaymentHandlerRan(r) /\ calls[r][1].result = "failed"
        /\ pc[r] = "done" /\ Len(responses[r]) = 1

\* the price is a decimal literal of positive value
ValidPrice(programPrice) ==
    ~ParseFloat(programPrice).nan /\ ParseFloat(programPrice).cents > 0

\* C4: a request with a valid positive price whose three processor calls
\* all succeeded is answered with HTTP 200 carrying the id of the
\* subscription created for it and that subscription's payment-intent
\* client secret, which is not empty.
C4_SuccessCarriesIdAndSecret ==
    \A r \in Req :
        (IsPayment(r) /\ AllCallsOk(r) /\ ValidPrice(body[r].programPrice))
        => /\ Len(responses[r]) = 1
           /\ responses[r][1].status = 200
           /\ \E i \in 1..Len(stripe.subscriptions) :
                LET sub == stripe.subscriptions[i]
                    secret == sub.latest_invoice.payment_intent.client_secret
                IN  /\ sub.by = r
                    /\ responses[r][1].body.subscriptionId = sub.id
                    /\ responses[r][1].body.clientSecret = secret
                    /\ secret # <<>>

C4_Witness ==
    \E r \in Req :
        /\ IsPayment(r) /\ AllCallsOk(r) /\ ValidPrice(body[r].programPrice)
        /\ Len(responses[r]) = 1 /\ responses[r][1].status = 200

\* C5: when one of the three processor calls fails, the request is
\* answered with HTTP 500 and {error: {message, type}} holding the message
\* and type of the error that call raised, whichever call it was.
C5_FailureSurfacedVerbatim ==
    \A r \in Req : \A i \in 1..Len(calls[r]) :
        calls[r][i].result = "failed"
        => responses[r] =
             <<[status |-> 500, kind |-> "json",
                body |-> [error |-> [message |-> calls[r][i].error.message,
                                     type |-> calls[r][i].error.type]]]>>

\* two requests failed at different calls and both were answered
C5_Witness ==
    \E r1, r2 \in Req :
        /\ Len(calls[r1]) = 1 /\ calls[r1][1].result = "failed"
        /\ Len(calls[r2]) = 3 /\ calls[r2][3].result = "failed"
        /\ Len(responses[r1]) = 1 /\ Len(responses[r2]) = 1

\* C6: the unit_amount passed to prices.create for a numeric programPrice
\* is the price times 100 as a whole number of cents; for "29.99" it is
\* 2999.
C6_AmountIsWholeCents ==
    \A r \in Req : \A i \in 1..Len(calls[r]) :
        (calls[r][i].api = "prices.create"
         /\ ~ParseFloat(body[r].programPrice).nan)
        => /\ IsInteger(calls[r][i].params.unit_amount)
           /\ calls[r][i].params.unit_amount.whole
                = ParseFloat(body[r].programPrice).cents
           /\ (body[r].programPrice = <<"2","9",".","9","9">>
               => calls[r][i].params.unit_amount.whole = 2999)

\* C8: the processor calls of a request form a prefix of customers.create,
\* prices.create, subscriptions.create: each is issued once, only after the
\* one before it returned successfully, none after a failed one, and no
\* other (compensating) call is issued; the processor holds at most one
\* object of each kind per request.
C8_CallsArePrefix ==
    \A r \in Req :
        /\ IsPrefix(ApiNames(calls[r]), Steps)
        /\ \A i \in 1..Len(calls[r]) :
              /\ i < Len(calls[r]) => calls[r][i].result = "ok"
              /\ calls[r][i].result = "pending"
                   => i = Len(calls[r]) /\ pc[r] = calls[r][i].api
              /\ calls[r][i].result = "failed" => pc[r] = "done"
        /\ Cardinality({i \in 1..Len(stripe.customers) :
                            stripe.customers[i].by = r}) <= 1
        /\ Cardinality({i \in 1..Len(stripe.prices) :
                            stripe.prices[i].by = r}) <= 1
        /\ Cardinality({i \in 1..Len(stripe.subscriptions) :
                            stripe.subscriptions[i].by = r}) <= 1

\* one request went through all three calls, another stopped at a failed
\* prices.create
C8_Witness ==
    \E r1, r2 \in Req :
        /\ AllCallsOk(r1)
        /\ Len(calls[r2]) = 2 /\ calls[r2][2].result = "failed"

\* C9: whatever the interleaving of concurrent requests, a subscription
\* binds the customer and the price that were created for the same request,
\* and a 200 response carries the id and client secret of the subscription
\* created for the request it answers.
C9_NoCrossRequestLeak ==
    /\ \A i \in 1..Len(stripe.subscriptions) :
        LET sub == stripe.subscriptions[i]
        IN  /\ Known(stripe.customers, sub.customer)
            /\ Lookup(stripe.customers, sub.customer).by = sub.by
            /\ Known(stripe.prices, sub.price)
            /\ Lookup(stripe.prices, sub.price).by = sub.by
            /\ sub.customer = customer[sub.by]
            /\ sub.price = price[sub.by]
    /\ \A r \in Req :
        (IsPayment(r) /\ Len(responses[r]) > 0 /\ responses[r][1].status = 200)
        => \E i \in 1..Len(stripe.subscriptions) :
             LET sub == stripe.subscriptions[i]
             IN  /\ sub.by = r
                 /\ responses[r][1].body.subscriptionId = sub.id
                 /\ responses[r][1].body.clientSecret
                      = sub.latest_invoice.payment_intent.client_secret

\* two requests overlapped (the customer of one was created first, its
\* price last) and both were answered with a subscription
C9_Witness ==
    \E r1, r2 \in Req :
        /\ AllCallsOk(r1) /\ AllCallsOk(r2)
        /\ customer[r1][2] < customer[r2][2]
        /\ price[r1][2] > price[r2][2]
        /\ Len(responses[r1]) = 1 /\ responses[r1][1].status = 200
        /\ Len(responses[r2]) = 1 /\ responses[r2][1].status = 200

\* the response is the 200 success body or a 500 error body
IsFinalResponse(resp) ==
    \/ resp.status = 200 /\ resp.kind = "json"
    \/ resp.status = 500 /\ resp.kind = "json"

AnsweredOnce(r) ==
    /\ Len(responses[r]) <= 1
    /\ pc[r] = "done" <=> Len(responses[r]) = 1
    /\ Len(responses[r]) = 1 => IsFinalResponse(responses[r][1])
    /\ (Len(responses[r]) = 0 /\ pc[r] # "idle")
         => /\ Len(calls[r]) > 0
            /\ calls[r][Len(calls[r])].result = "pending"

\* C10: a payment request whose processor calls each return or throw is
\* answered exactly once, with the 200 body or a 500 body: never twice, a
\* written response is never replaced, a request is unanswered only while
\* a processor call is pending, and every accepted request is eventually
\* answered.
C10_ExactlyOneResponse ==
    /\ [](\A r \in Req : IsPayment(r) => AnsweredOnce(r))
    /\ [][\A r \in Req :
            Len(responses[r]) = 1 => responses'[r] = responses[r]]_vars
    /\ \A r \in Req : IsPayment(r) ~> (IsPayment(r) /\ Len(responses[r]) = 1)

\* a request was answered after waiting for all three calls
C10_Witness ==
    \E r \in Req :
        /\ IsPayment(r) /\ Len(calls[r]) = 3 /\ pc[r] = "done"
        /\ Len(responses[r]) = 1

====
